---- MODULE Spec2Model ----
(***************************************************************************)
(* Model of the lesion detection pipeline of lesionpypeline/pipeline.py:   *)
(* the PipelineContext (configuration validation, selection helpers, one   *)
(* cached stage method per external tool) and the driver execute_pipeline. *)
(*                                                                         *)
(* Paths are triples <<directory, slot, name>>:                             *)
(*   <<d, 0, n>>      a file n the user keeps in directory d                *)
(*   <<"cache", i, n>> output n of the i-th entry of the cache directory    *)
(*   <<"", 0, v>>     a parameter value that is no path                     *)
(***************************************************************************)
EXTENDS Integers, Sequences, FiniteSets, TLC

\* ---------------------------------------------------------------- bounds
\* runs of execute_pipeline that are started, one after the other
MaxRuns == 2
\* stage methods called directly on a context (specification SpecStage)
MaxStageCalls == 2
\* entries of a configured candidate list (specification SpecSelect)
MaxListLen == 2

\* ------------------------------------------------- sequence identifiers
ADC == "adc"
DWI == "dwi"
T1 == "t1_sag_tfe"
FLAIR == "flair_tra"
DW == "dw_tra_b1000_dmean"
SeqIds == {T1, FLAIR, DW, DWI, ADC}

\* ----------------------------------------------------------------- paths
File(dir, name) == <<dir, 0, name>>
Param(v) == <<"", 0, v>>
NoPath == <<"", 0, "">>
\* a local variable that no assignment has bound yet
Unbound == <<"", 0, "<unbound>">>
CacheDir == "cache"
OutputDir == "output"
Output(slot, name) == <<CacheDir, slot, name>>

\* ------------------------------------------------- nipype.caching.Memory
\* slot of the cache entry recorded for key, 0 when there is none
Lookup(c, key) ==
    IF \E i \in 1..Len(c) : c[i] = key
    THEN CHOOSE i \in 1..Len(c) : c[i] = key
    ELSE 0

\* one call of a cached interface: a recorded entry answers it without
\* running the tool; otherwise the tool runs and, unless it fails, its
\* result is recorded under the key
Invoke(c, op, args, fail) ==
    LET key == [op |-> op, args |-> args]
        i == Lookup(c, key)
    IN  IF i > 0
        THEN [ok |-> TRUE, hit |-> TRUE, slot |-> i, cache |-> c,
              op |-> op, args |-> args]
        ELSE IF fail
        THEN [ok |-> FALSE, hit |-> FALSE, slot |-> 0, cache |-> c,
              op |-> op, args |-> args]
        ELSE [ok |-> TRUE, hit |-> FALSE, slot |-> Len(c) + 1,
              cache |-> Append(c, key), op |-> op, args |-> args]

\* the interface run directly, not through the cache
RunUncached(c, op, args, fail) ==
    IF fail
    THEN [ok |-> FALSE, hit |-> FALSE, slot |-> 0, cache |-> c,
          op |-> op, args |-> args]
    ELSE [ok |-> TRUE, hit |-> FALSE, slot |-> Len(c) + 1,
          cache |-> Append(c, [op |-> op, args |-> args]),
          op |-> op, args |-> args]

\* the tool run for key after a lookup that found no entry: its result is
\* written to the slot of the key, which another process may have written
\* since the lookup
Record(c, op, args, fail) ==
    LET key == [op |-> op, args |-> args]
        i == Lookup(c, key)
    IN  IF fail
        THEN [ok |-> FALSE, hit |-> FALSE, slot |-> 0, cache |-> c,
              op |-> op, args |-> args]
        ELSE IF i > 0
        THEN [ok |-> TRUE, hit |-> FALSE, slot |-> i, cache |-> c,
              op |-> op, args |-> args]
        ELSE [ok |-> TRUE, hit |-> FALSE, slot |-> Len(c) + 1,
              cache |-> Append(c, key), op |-> op, args |-> args]

\* the log line of one call
CallRec(res) ==
    [op |-> res.op, args |-> res.args, hit |-> res.hit, ok |-> res.ok,
     slot |-> res.slot]

\* result of a stage method that made one cached call
Single(res, names) ==
    [ok |-> res.ok,
     out |-> [i \in 1..Len(names) |-> Output(res.slot, names[i])],
     cache |-> res.cache,
     log |-> <<CallRec(res)>>]

\* result of a stage method that chains two cached calls: the second is
\* made only when the first returned
Chain(first, second, names) ==
    IF ~first.ok
    THEN [ok |-> FALSE, out |-> <<NoPath>>, cache |-> first.cache,
          log |-> <<CallRec(first)>>]
    ELSE [ok |-> second.ok,
          out |-> [i \in 1..Len(names) |-> Output(second.slot, names[i])],
          cache |-> second.cache,
          log |-> <<CallRec(first), CallRec(second)>>]

\* --------------------------------------------------------- configuration
\* float(token) of the pixel spacing, in tenths; -1 where float() raises
Float(tok) ==
    CASE tok = "1" -> 10
      [] tok = "1.0" -> 10
      [] tok = "3" -> 30
      [] tok = "0.5" -> 5
      [] OTHER -> 0 - 1

\* str(x) of a float, x in tenths
Str(x) ==
    CASE x = 10 -> "1.0"
      [] x = 30 -> "3.0"
      [] x = 5 -> "0.5"
      [] OTHER -> "nan"

\* str.strip of a list entry of the config file
Strip(tok) ==
    CASE tok = " flair_tra" -> FLAIR
      [] tok = " t1_sag_tfe" -> T1
      [] tok = "dwi " -> DWI
      [] OTHER -> tok

\* os.path.isdir / os.makedirs: the directory exists afterwards
check_configured_directory(dirs, path) == dirs \cup {path}

\* the check accepting a file that is missing
check_configured_file_any(files, path) == TRUE

\* os.path.isfile: a missing file raises ValueError
check_configured_file(files, path) == path \in files

\* x, y, z = map(float, pixel_spacing.split(',')): ValueError unless there
\* are exactly three tokens and each is a number
SpacingOk(tokens) ==
    /\ Len(tokens) = 3
    /\ \A i \in 1..Len(tokens) : Float(tokens[i]) >= 0

NoContext ==
    [output_dir |-> "", pixel_spacing |-> <<>>,
     elastix_parameter_file |-> NoPath,
     registration_base_list |-> <<>>, skullstripping_base_list |-> <<>>,
     intensity_model_dir |-> "", feature_config_file |-> NoPath,
     forest_dir |-> ""]

\* PipelineContext.__init__ on a filesystem with directories dirs and
\* files: the checks run in the order of the code, and the directories
\* made before a check fails stay
PipelineContext(config, dirs, files) ==
    LET d1 == check_configured_directory(dirs, config.cache_dir)
        d2 == check_configured_directory(d1, config.output_dir)
        d3 == check_configured_directory(d2, config.model_dir)
        d4 == check_configured_directory(d3, config.forest_dir)
        failed(d, what) == [ok |-> FALSE, err |-> what, dirs |-> d,
                            ctx |-> NoContext]
    IN  IF ~SpacingOk(config.pixel_spacing)
        THEN failed(d2, "pixel_spacing")
        ELSE IF ~check_configured_file(files, config.elastix_parameter_file)
        THEN failed(d2, "elastix_parameter_file")
        ELSE IF ~check_configured_file(files, config.feature_config_file)
        THEN failed(d3, "feature_config_file")
        ELSE [ok |-> TRUE, err |-> "", dirs |-> d4,
              ctx |-> [output_dir |-> config.output_dir,
                       pixel_spacing |->
                           [i \in 1..3 |-> Float(config.pixel_spacing[i])],
                       elastix_parameter_file |->
                           config.elastix_parameter_file,
                       registration_base_list |->
                           [i \in 1..Len(config.registration_base) |->
                               Strip(config.registration_base[i])],
                       skullstripping_base_list |->
                           [i \in 1..Len(config.base_image) |->
                               Strip(config.base_image[i])],
                       intensity_model_dir |-> config.model_dir,
                       feature_config_file |-> config.feature_config_file,
                       forest_dir |-> config.forest_dir]]

\* ------------------------------------------------------ selection helpers
\* the scan returning the last candidate present, not the first
RECURSIVE LastPresent(_, _, _)
LastPresent(list, sequences, i) ==
    IF i > Len(list) THEN 0
    ELSE LET later == LastPresent(list, sequences, i + 1)
         IN  IF later > 0 THEN later
             ELSE IF list[i] \in sequences THEN i
             ELSE 0

\* for s in list: if s in sequences: return s   (0 when the loop ends)
RECURSIVE FirstPresent(_, _, _)
FirstPresent(list, sequences, i) ==
    IF i > Len(list) THEN 0
    ELSE IF list[i] \in sequences THEN i
    ELSE FirstPresent(list, sequences, i + 1)

get_registration_base(ctx, sequences) ==
    LET i == FirstPresent(ctx.registration_base_list, sequences, 1)
    IN  IF i > 0
        THEN [ok |-> TRUE, key |-> ctx.registration_base_list[i],
              tried |-> <<>>]
        ELSE [ok |-> FALSE, key |-> "",
              tried |-> ctx.registration_base_list]

\* the error text of this helper formats the registration base list
get_skullstripping_base(ctx, sequences) ==
    LET i == FirstPresent(ctx.skullstripping_base_list, sequences, 1)
    IN  IF i > 0
        THEN [ok |-> TRUE, key |-> ctx.skullstripping_base_list[i],
              tried |-> <<>>]
        ELSE [ok |-> FALSE, key |-> "",
              tried |-> ctx.registration_base_list]

\* <model_dir>/intensity_model_<sequence>.pkl, named here by the sequence
IntensityModelPath(dir, sequence) == File(dir, sequence)

get_intensity_model(ctx, files, sequence) ==
    LET path == IntensityModelPath(ctx.intensity_model_dir, sequence)
    IN  [ok |-> path \in files, path |-> path]

\* get_forest accepting every set that holds the three sequences
get_forest_superset(ctx, sequences) ==
    IF {FLAIR, DW, T1} \subseteq sequences
    THEN [ok |-> TRUE, path |-> File(ctx.forest_dir, "forest.pklz")]
    ELSE [ok |-> FALSE, path |-> NoPath]

get_forest(ctx, sequences) ==
    IF sequences = {FLAIR, DW, T1}
    THEN [ok |-> TRUE, path |-> File(ctx.forest_dir, "forest.pklz")]
    ELSE [ok |-> FALSE, path |-> NoPath]

\* ---------------------------------------------------------- stage methods
\* fail names the call of the method whose tool fails should it run:
\* 0 none, 1 the first, 2 the second
SpacingArgs(ctx) == [i \in 1..3 |-> Param(Str(ctx.pixel_spacing[i]))]

\* resample calling the interface directly, past the cache
resample_uncached(ctx, c, in_file, fail) ==
    Single(RunUncached(c, "MedpyResample", <<in_file>> \o SpacingArgs(ctx),
                       fail = 1),
           <<"out_file">>)

resample(ctx, c, in_file, fail) ==
    Single(Invoke(c, "MedpyResample", <<in_file>> \o SpacingArgs(ctx),
                  fail = 1),
           <<"out_file">>)

\* register catching the failure of elastix and handing back the moving
\* image unregistered
register_default(ctx, c, moving_image, fixed_image, fail) ==
    LET res == Invoke(c, "elastix.Registration",
                      <<moving_image, fixed_image,
                        ctx.elastix_parameter_file, Param("none")>>,
                      fail = 1)
    IN  [ok |-> TRUE,
         out |-> IF res.ok
                 THEN <<Output(res.slot, "warped_file"),
                        Output(res.slot, "transform")>>
                 ELSE <<moving_image, NoPath>>,
         cache |-> res.cache,
         log |-> <<CallRec(res)>>]

register(ctx, c, moving_image, fixed_image, fail) ==
    Single(Invoke(c, "elastix.Registration",
                  <<moving_image, fixed_image, ctx.elastix_parameter_file,
                    Param("none")>>,
                  fail = 1),
           <<"warped_file", "transform">>)

transform(ctx, c, moving_image, transform_file, fail) ==
    Single(Invoke(c, "elastix.ApplyWarp", <<moving_image, transform_file>>,
                  fail = 1),
           <<"warped_file">>)

\* skullstrip calling BET directly, past the cache
skullstrip_uncached(ctx, c, in_file, fail) ==
    Single(RunUncached(c, "fsl.BET",
                       <<in_file, Param("mask"), Param("robust"),
                         Param("NIFTI_GZ")>>,
                       fail = 1),
           <<"mask_file">>)

skullstrip(ctx, c, in_file, fail) ==
    Single(Invoke(c, "fsl.BET",
                  <<in_file, Param("mask"), Param("robust"),
                    Param("NIFTI_GZ")>>,
                  fail = 1),
           <<"mask_file">>)

\* apply_mask not handing the mask it was given to the tool
apply_mask_other(ctx, c, in_file, mask_file, fail) ==
    Single(Invoke(c, "ApplyMask", <<in_file, in_file>>, fail = 1),
           <<"out_file">>)

apply_mask(ctx, c, in_file, mask_file, fail) ==
    Single(Invoke(c, "ApplyMask", <<in_file, mask_file>>, fail = 1),
           <<"out_file">>)

correct_biasfield(ctx, c, in_file, mask_file, fail) ==
    LET result_bfc == Invoke(c, "MRBias", <<in_file, mask_file>>, fail = 1)
        result_mmd ==
            Invoke(result_bfc.cache, "NiftiModifyMetadata",
                   <<Output(result_bfc.slot, "out_file"), Param("qf=aff"),
                     Param("sf=aff"), Param("qfc=1"), Param("sfc=1")>>,
                   fail = 2)
    IN  Chain(result_bfc, result_mmd, <<"out_file">>)

\* standardize_intensityrange not passing the model file to the cached call
standardize_without_model(ctx, c, in_file, mask_file, model_file, fail) ==
    LET result_irs ==
            Invoke(c, "MedpyIntensityRangeStandardization",
                   <<in_file, Param("."), mask_file>>, fail = 1)
        result_co ==
            Invoke(result_irs.cache, "CondenseOutliers",
                   <<Output(result_irs.slot, "out_file")>>, fail = 2)
    IN  Chain(result_irs, result_co, <<"out_file">>)

standardize_intensityrange(ctx, c, in_file, mask_file, model_file, fail) ==
    LET result_irs ==
            Invoke(c, "MedpyIntensityRangeStandardization",
                   <<in_file, Param("."), mask_file, model_file>>, fail = 1)
        result_co ==
            Invoke(result_irs.cache, "CondenseOutliers",
                   <<Output(result_irs.slot, "out_file")>>, fail = 2)
    IN  Chain(result_irs, result_co, <<"out_file">>)

\* the keys of a dict in a fixed order
KeyOrder == <<T1, FLAIR, DW, DWI, ADC>>
Keys(S) == SelectSeq(KeyOrder, LAMBDA k : k \in S)

\* a dict parameter: its items
DictArgs(sequence_paths) ==
    LET ks == Keys(DOMAIN sequence_paths)
    IN  [i \in 1..(2 * Len(ks)) |->
            IF i % 2 = 1 THEN Param(ks[(i + 1) \div 2])
            ELSE sequence_paths[ks[i \div 2]]]

extract_features(ctx, c, sequence_paths, mask_file, fail) ==
    Single(Invoke(c, "ExtractFeatures",
                  DictArgs(sequence_paths)
                      \o <<ctx.feature_config_file, mask_file, Param(".")>>,
                  fail = 1),
           <<"out_dir">>)

apply_rdf(ctx, c, forest_file, feature_dir, mask_file, fail) ==
    Single(Invoke(c, "ApplyRdf",
                  <<forest_file, ctx.feature_config_file, feature_dir,
                    mask_file>>,
                  fail = 1),
           <<"out_file_segmentation", "out_file_probabilities">>)

\* ------------------------------------------------------------ file system
\* what an output location holds: nothing, a regular file left by an
\* earlier use, a symbolic link whose target is gone, or a link to a path
Absent == NoPath
PriorFile == File(OutputDir, "prior")
Dangling == <<"gone", 0, "dangling">>
isfile(x) == x \notin {Absent, Dangling}
lexists(x) == x # Absent
OutFiles == <<"segmentation.nii.gz", "probability.nii.gz">>

ModelDir == "models"
ForestDir == "forest"
ElastixA == File("etc", "elastix_a.txt")
ElastixMissing == File("etc", "no_such_elastix.txt")
FeatureA == File("etc", "features_a.cfg")
FeatureMissing == File("etc", "no_such_features.cfg")
AllDirs == {CacheDir, OutputDir, ModelDir, ForestDir}
ToolFiles == {ElastixA, FeatureA}
ModelFiles(S) == {IntensityModelPath(ModelDir, k) : k \in S}

\* ------------------------------------------------------------------ inputs
BaseConfig ==
    [cache_dir |-> CacheDir, output_dir |-> OutputDir,
     pixel_spacing |-> <<"1", "1", "1">>,
     elastix_parameter_file |-> ElastixA,
     registration_base |-> <<"t1_sag_tfe", " flair_tra", "dwi ">>,
     base_image |-> <<"flair_tra", " t1_sag_tfe">>,
     model_dir |-> ModelDir,
     feature_config_file |-> FeatureA,
     forest_dir |-> ForestDir]

Configs ==
    {BaseConfig,
     [BaseConfig EXCEPT !.elastix_parameter_file = ElastixMissing]}

SequenceSets ==
    {{T1, FLAIR, DW}, {T1}, {T1, ADC}, {T1, DWI, ADC}, {DWI, ADC}, {DW}}
Caller(S) == [k \in S |-> File("data", k)]

\* ------------------------------------------------------------------- state
VARIABLES
    dirs,      \* the directories that exist
    files,     \* the configuration and model files that exist
    out,       \* what each of the two output locations holds
    cache,     \* the entries of the cache directory, in the order recorded
    calls,     \* every call made through the cache so far
    frame      \* per run of execute_pipeline: its local variables

vars == <<dirs, files, out, cache, calls, frame>>

Runs == 1..MaxRuns
NoError == [kind |-> "", tried |-> <<>>, at |-> ""]
EmptyDict == [k \in {} |-> NoPath]

IdleFrame ==
    [pc |-> "idle", caller |-> EmptyDict, config |-> BaseConfig,
     ctx |-> NoContext, sequence_paths |-> EmptyDict,
     fixed_image_key |-> "", fixed_image |-> NoPath,
     transform |-> Unbound, skullstrip_base_key |-> "", mask |-> NoPath,
     key |-> "", todo |-> {},
     features |-> NoPath, forest |-> NoPath,
     images |-> <<NoPath, NoPath>>, pub |-> 0,
     dirs_before |-> {}, out_before |-> [n \in {} |-> NoPath],
     err |-> NoError]

\* the installations a first run may find: nothing made yet, or the
\* directories made and the output locations used before
Installations ==
    {[dirs |-> {ModelDir}, out |-> <<Absent, Absent>>],
     [dirs |-> AllDirs, out |-> <<PriorFile, PriorFile>>],
     [dirs |-> AllDirs, out |-> <<PriorFile, Dangling>>]}

OutDict(o) ==
    [n \in {OutFiles[1], OutFiles[2]} |->
        IF n = OutFiles[1] THEN o[1] ELSE o[2]]

Init ==
    /\ \E inst \in Installations :
          /\ dirs = inst.dirs
          /\ out = OutDict(inst.out)
    /\ files = ToolFiles \cup ModelFiles(SeqIds \ {DWI})
    /\ cache = <<>>
    /\ calls = <<>>
    /\ frame = [r \in Runs |-> IdleFrame]

\* ------------------------------------------------------------------ driver
Terminal(f) == f.pc \in {"done", "error"}

\* the exception that ends a run, and the step that raised it
Raise(f, kind, tried) ==
    [f EXCEPT !.pc = "error",
              !.err = [kind |-> kind, tried |-> tried, at |-> f.pc]]

\* which call of a stage method has a failing tool, 0 for none
FailChoices(n) == 0..n

\* the values of the configuration that a stage method adds to the
\* arguments its caller gives
Configured(method, ctx) ==
    CASE method = "resample" -> SpacingArgs(ctx)
      [] method = "register" -> <<ctx.elastix_parameter_file>>
      [] method = "extract_features" -> <<ctx.feature_config_file>>
      [] method = "apply_rdf" -> <<ctx.feature_config_file>>
      [] OTHER -> <<>>

\* the calls of one stage method, made by run r for sequence k with the
\* arguments given: each line names the method, its parameters and the
\* place of the call in the method
Logged(r, k, method, ctx, given, log) ==
    [i \in 1..Len(log) |->
        [run |-> r, seq |-> k, method |-> method,
         params |-> given \o Configured(method, ctx), nth |-> i,
         op |-> log[i].op, args |-> log[i].args,
         hit |-> log[i].hit, ok |-> log[i].ok, slot |-> log[i].slot]]

Commit(r, k, method, given, res) ==
    /\ cache' = res.cache
    /\ calls' = calls \o Logged(r, k, method, frame[r].ctx, given, res.log)

\* the next key a loop over the dict visits
NextKey(S) == Keys(S)[1]

\* where the run goes after the loop over the ordinary sequences
AfterDwi(f) == IF ADC \in DOMAIN f.sequence_paths THEN "adc" ELSE "skullstrip"
AfterRegister(f) ==
    IF DWI \in DOMAIN f.sequence_paths THEN "register_dwi" ELSE AfterDwi(f)

\* lines 30-31: sequence_paths = copy.copy(sequence_paths);
\* context = PipelineContext(config)
Execute(r, caller, config) ==
    /\ frame[r].pc = "idle"
    /\ LET made == PipelineContext(config, dirs, files)
           f == [frame[r] EXCEPT !.caller = caller,
                                 !.sequence_paths = caller,
                                 !.config = config,
                                 !.dirs_before = dirs,
                                 !.out_before = out]
       IN  /\ dirs' = made.dirs
           /\ frame' = [frame EXCEPT ![r] =
                 IF made.ok
                 THEN [f EXCEPT !.ctx = made.ctx, !.pc = "resample"]
                 ELSE Raise(f, "config", <<made.err>>)]
    /\ UNCHANGED <<files, out, cache, calls>>

\* the sequence sets a run may be given: the first run any of them, a
\* later run the set of the run before it (the same case is run again)
Cases(r) ==
    IF r = 1 THEN SequenceSets ELSE {DOMAIN frame[r - 1].caller}

\* runs made one after the other: a run starts when the runs before it
\* have ended
StartRun(r) ==
    /\ frame[r].pc = "idle"
    /\ \A q \in Runs : q < r => Terminal(frame[q])
    /\ \E S \in Cases(r), config \in Configs :
          Execute(r, Caller(S), config)

\* lines 34-37
Resample(r) ==
    /\ frame[r].pc = "resample"
    /\ LET f == frame[r]
           base == get_registration_base(f.ctx, DOMAIN f.sequence_paths)
       IN  IF ~base.ok
           THEN /\ frame' = [frame EXCEPT ![r] =
                                Raise(f, "registration_base", base.tried)]
                /\ UNCHANGED <<cache, calls>>
           ELSE \E fail \in FailChoices(1) :
                   LET res == resample(f.ctx, cache,
                                       f.sequence_paths[base.key], fail)
                       g == [f EXCEPT
                               !.fixed_image_key = base.key,
                               !.fixed_image = res.out[1],
                               !.sequence_paths[base.key] = res.out[1],
                               !.todo = DOMAIN f.sequence_paths
                                            \ {base.key, ADC, DWI}]
                   IN  /\ Commit(r, base.key, "resample",
                              <<f.sequence_paths[base.key]>>, res)
                       /\ frame' = [frame EXCEPT ![r] =
                             IF ~res.ok THEN Raise(f, "tool", <<>>)
                             ELSE [g EXCEPT !.pc =
                                     IF g.todo = {} THEN AfterRegister(g)
                                     ELSE "register"]]
    /\ UNCHANGED <<dirs, files, out>>

\* lines 38-40, one iteration
Register(r) ==
    /\ frame[r].pc = "register"
    /\ LET f == frame[r]
           k == NextKey(f.todo)
       IN  \E fail \in FailChoices(1) :
              LET res == register(f.ctx, cache, f.sequence_paths[k],
                                  f.fixed_image, fail)
                  g == [f EXCEPT !.sequence_paths[k] = res.out[1],
                                 !.todo = f.todo \ {k}]
              IN  /\ Commit(r, k, "register",
                         <<f.sequence_paths[k], f.fixed_image>>, res)
                  /\ frame' = [frame EXCEPT ![r] =
                        IF ~res.ok THEN Raise(f, "tool", <<>>)
                        ELSE [g EXCEPT !.pc =
                                IF g.todo = {} THEN AfterRegister(g)
                                ELSE "register"]]
    /\ UNCHANGED <<dirs, files, out>>

\* RegisterDwi storing the pair register returns instead of unpacking it
RegisterDwi_pair(r) ==
    /\ frame[r].pc = "register_dwi"
    /\ LET f == frame[r]
       IN  \E fail \in FailChoices(1) :
              LET res == register(f.ctx, cache, f.sequence_paths[DWI],
                                  f.fixed_image, fail)
                  g == [f EXCEPT !.sequence_paths[DWI] = res.out,
                                 !.transform = res.out[2]]
              IN  /\ Commit(r, DWI, "register",
                         <<f.sequence_paths[DWI], f.fixed_image>>, res)
                  /\ frame' = [frame EXCEPT ![r] =
                        IF ~res.ok THEN Raise(f, "tool", <<>>)
                        ELSE [g EXCEPT !.pc = AfterDwi(g)]]
    /\ UNCHANGED <<dirs, files, out>>

\* lines 44-46
RegisterDwi(r) ==
    /\ frame[r].pc = "register_dwi"
    /\ LET f == frame[r]
       IN  \E fail \in FailChoices(1) :
              LET res == register(f.ctx, cache, f.sequence_paths[DWI],
                                  f.fixed_image, fail)
                  g == [f EXCEPT !.sequence_paths[DWI] = res.out[1],
                                 !.transform = res.out[2]]
              IN  /\ Commit(r, DWI, "register",
                         <<f.sequence_paths[DWI], f.fixed_image>>, res)
                  /\ frame' = [frame EXCEPT ![r] =
                        IF ~res.ok THEN Raise(f, "tool", <<>>)
                        ELSE [g EXCEPT !.pc = AfterDwi(g)]]
    /\ UNCHANGED <<dirs, files, out>>

\* the value None
None == <<"", 0, "None">>

\* AdcBranch registering ADC on its own although DWI gave a transform
AdcBranch_registers(r) ==
    /\ frame[r].pc = "adc"
    /\ LET f == frame[r]
       IN  \E fail \in FailChoices(1) :
              LET res == register(f.ctx, cache, f.sequence_paths[ADC],
                                  f.fixed_image, fail)
              IN  /\ Commit(r, ADC, "register",
                            <<f.sequence_paths[ADC], f.fixed_image>>, res)
                  /\ frame' = [frame EXCEPT ![r] =
                        IF ~res.ok THEN Raise(f, "tool", <<>>)
                        ELSE [f EXCEPT !.sequence_paths[ADC] = res.out[1],
                                       !.pc = "skullstrip"]]
    /\ UNCHANGED <<dirs, files, out>>

\* lines 47-53: reading transform before any assignment to it raises
\* UnboundLocalError; the else branch stores the pair register returns
AdcBranch(r) ==
    /\ frame[r].pc = "adc"
    /\ LET f == frame[r]
       IN  IF f.transform = Unbound
           THEN /\ frame' = [frame EXCEPT ![r] =
                                Raise(f, "UnboundLocalError", <<>>)]
                /\ UNCHANGED <<cache, calls>>
           ELSE \E fail \in FailChoices(1) :
                   LET res == IF f.transform # None
                              THEN transform(f.ctx, cache,
                                             f.sequence_paths[ADC],
                                             f.transform, fail)
                              ELSE register(f.ctx, cache,
                                            f.sequence_paths[ADC],
                                            f.fixed_image, fail)
                       stored == IF f.transform # None THEN res.out[1]
                                 ELSE res.out
                       method == IF f.transform # None THEN "transform"
                                 ELSE "register"
                       given == IF f.transform # None
                                THEN <<f.sequence_paths[ADC], f.transform>>
                                ELSE <<f.sequence_paths[ADC], f.fixed_image>>
                   IN  /\ Commit(r, ADC, method, given, res)
                       /\ frame' = [frame EXCEPT ![r] =
                             IF ~res.ok THEN Raise(f, "tool", <<>>)
                             ELSE [f EXCEPT !.sequence_paths[ADC] = stored,
                                            !.pc = "skullstrip"]]
    /\ UNCHANGED <<dirs, files, out>>

\* lines 57-58
Skullstrip(r) ==
    /\ frame[r].pc = "skullstrip"
    /\ LET f == frame[r]
           base == get_skullstripping_base(f.ctx, DOMAIN f.sequence_paths)
       IN  IF ~base.ok
           THEN /\ frame' = [frame EXCEPT ![r] =
                                Raise(f, "skullstripping_base", base.tried)]
                /\ UNCHANGED <<cache, calls>>
           ELSE \E fail \in FailChoices(1) :
                   LET res == skullstrip(f.ctx, cache,
                                         f.sequence_paths[base.key], fail)
                   IN  /\ Commit(r, base.key, "skullstrip",
                              <<f.sequence_paths[base.key]>>, res)
                       /\ frame' = [frame EXCEPT ![r] =
                             IF ~res.ok THEN Raise(f, "tool", <<>>)
                             ELSE [f EXCEPT !.skullstrip_base_key = base.key,
                                            !.mask = res.out[1],
                                            !.todo = DOMAIN f.sequence_paths,
                                            !.pc = "apply_mask"]]
    /\ UNCHANGED <<dirs, files, out>>

\* lines 60-61, one iteration
ApplyMask(r) ==
    /\ frame[r].pc = "apply_mask"
    /\ LET f == frame[r]
           k == NextKey(f.todo)
       IN  \E fail \in FailChoices(1) :
              LET res == apply_mask(f.ctx, cache, f.sequence_paths[k],
                                    f.mask, fail)
                  g == [f EXCEPT !.sequence_paths[k] = res.out[1],
                                 !.todo = f.todo \ {k}]
              IN  /\ Commit(r, k, "apply_mask",
                         <<f.sequence_paths[k], f.mask>>, res)
                  /\ frame' = [frame EXCEPT ![r] =
                        IF ~res.ok THEN Raise(f, "tool", <<>>)
                        ELSE IF g.todo # {} THEN g
                        ELSE [g EXCEPT !.todo = DOMAIN f.sequence_paths,
                                       !.pc = "correct_biasfield"]]
    /\ UNCHANGED <<dirs, files, out>>

\* the bias correction run on the path the caller gave, not on the masked
\* image
CorrectBiasfield_unmasked(r) ==
    /\ frame[r].pc = "correct_biasfield"
    /\ LET f == frame[r]
           k == NextKey(f.todo)
       IN  \E fail \in FailChoices(2) :
              LET res == correct_biasfield(f.ctx, cache, f.caller[k],
                                           f.mask, fail)
              IN  /\ Commit(r, k, "correct_biasfield",
                         <<f.caller[k], f.mask>>, res)
                  /\ frame' = [frame EXCEPT ![r] =
                        IF ~res.ok THEN Raise(f, "tool", <<>>)
                        ELSE [f EXCEPT !.sequence_paths[k] = res.out[1],
                                       !.key = k,
                                       !.pc = "standardize_intensityrange"]]
    /\ UNCHANGED <<dirs, files, out>>

\* lines 64-66, the first statement of one iteration
CorrectBiasfield(r) ==
    /\ frame[r].pc = "correct_biasfield"
    /\ LET f == frame[r]
           k == NextKey(f.todo)
       IN  \E fail \in FailChoices(2) :
              LET res == correct_biasfield(f.ctx, cache, f.sequence_paths[k],
                                           f.mask, fail)
              IN  /\ Commit(r, k, "correct_biasfield",
                         <<f.sequence_paths[k], f.mask>>, res)
                  /\ frame' = [frame EXCEPT ![r] =
                        IF ~res.ok THEN Raise(f, "tool", <<>>)
                        ELSE [f EXCEPT !.sequence_paths[k] = res.out[1],
                                       !.key = k,
                                       !.pc = "standardize_intensityrange"]]
    /\ UNCHANGED <<dirs, files, out>>

\* lines 67-70, the second statement of the iteration
StandardizeIntensityrange(r) ==
    /\ frame[r].pc = "standardize_intensityrange"
    /\ LET f == frame[r]
           k == f.key
           model == get_intensity_model(f.ctx, files, k)
       IN  IF ~model.ok
           THEN /\ frame' = [frame EXCEPT ![r] =
                                Raise(f, "intensity_model", <<k>>)]
                /\ UNCHANGED <<cache, calls>>
           ELSE \E fail \in FailChoices(2) :
                   LET res == standardize_intensityrange(
                                  f.ctx, cache, f.sequence_paths[k], f.mask,
                                  model.path, fail)
                       g == [f EXCEPT !.sequence_paths[k] = res.out[1],
                                      !.todo = f.todo \ {k}]
                   IN  /\ Commit(r, k, "standardize_intensityrange",
                              <<f.sequence_paths[k], f.mask, model.path>>,
                              res)
                       /\ frame' = [frame EXCEPT ![r] =
                             IF ~res.ok THEN Raise(f, "tool", <<>>)
                             ELSE [g EXCEPT !.pc =
                                     IF g.todo = {} THEN "extract_features"
                                     ELSE "correct_biasfield"]]
    /\ UNCHANGED <<dirs, files, out>>

\* line 74
ExtractFeatures(r) ==
    /\ frame[r].pc = "extract_features"
    /\ LET f == frame[r]
       IN  \E fail \in FailChoices(1) :
              LET res == extract_features(f.ctx, cache, f.sequence_paths,
                                          f.mask, fail)
              IN  /\ Commit(r, "", "extract_features",
                         DictArgs(f.sequence_paths) \o <<f.mask>>, res)
                  /\ frame' = [frame EXCEPT ![r] =
                        IF ~res.ok THEN Raise(f, "tool", <<>>)
                        ELSE [f EXCEPT !.features = res.out[1],
                                       !.pc = "apply_rdf"]]
    /\ UNCHANGED <<dirs, files, out>>

\* lines 75-76: get_forest is evaluated as an argument of apply_rdf
Classify(r) ==
    /\ frame[r].pc = "apply_rdf"
    /\ LET f == frame[r]
           forest == get_forest(f.ctx, DOMAIN f.sequence_paths)
       IN  IF ~forest.ok
           THEN /\ frame' = [frame EXCEPT ![r] = Raise(f, "forest", <<>>)]
                /\ UNCHANGED <<cache, calls>>
           ELSE \E fail \in FailChoices(1) :
                   LET res == apply_rdf(f.ctx, cache, forest.path,
                                        f.features, f.mask, fail)
                   IN  /\ Commit(r, "", "apply_rdf",
                              <<forest.path, f.features, f.mask>>, res)
                       /\ frame' = [frame EXCEPT ![r] =
                             IF ~res.ok THEN Raise(f, "tool", <<>>)
                             ELSE [f EXCEPT !.forest = forest.path,
                                            !.images = res.out,
                                            !.pub = 1,
                                            !.pc = "publish_isfile"]]
    /\ UNCHANGED <<dirs, files, out>>

\* line 81: os.path.isfile(out_path)
PublishIsfile(r) ==
    /\ frame[r].pc = "publish_isfile"
    /\ frame' = [frame EXCEPT ![r].pc =
                    IF isfile(out[OutFiles[frame[r].pub]])
                    THEN "publish_remove" ELSE "publish_symlink"]
    /\ UNCHANGED <<dirs, files, out, cache, calls>>

\* line 82: os.remove(out_path)
PublishRemove(r) ==
    /\ frame[r].pc = "publish_remove"
    /\ LET f == frame[r]
           n == OutFiles[f.pub]
       IN  IF ~lexists(out[n])
           THEN /\ frame' = [frame EXCEPT ![r] = Raise(f, "OSError", <<n>>)]
                /\ out' = out
           ELSE /\ frame' = [frame EXCEPT ![r].pc = "publish_symlink"]
                /\ out' = [out EXCEPT ![n] = Absent]
    /\ UNCHANGED <<dirs, files, cache, calls>>

\* line 83: os.symlink(path, out_path) fails when out_path exists, be it
\* a link whose target is gone
PublishSymlink(r) ==
    /\ frame[r].pc = "publish_symlink"
    /\ LET f == frame[r]
           n == OutFiles[f.pub]
       IN  IF lexists(out[n])
           THEN /\ frame' = [frame EXCEPT ![r] = Raise(f, "OSError", <<n>>)]
                /\ out' = out
           ELSE /\ out' = [out EXCEPT ![n] = f.images[f.pub]]
                /\ frame' = [frame EXCEPT ![r] =
                      IF f.pub < Len(OutFiles)
                      THEN [f EXCEPT !.pub = f.pub + 1,
                                     !.pc = "publish_isfile"]
                      ELSE [f EXCEPT !.pc = "done"]]
    /\ UNCHANGED <<dirs, files, cache, calls>>

Next ==
    \E r \in Runs :
        \/ StartRun(r)
        \/ Resample(r)
        \/ Register(r)
        \/ RegisterDwi(r)
        \/ AdcBranch(r)
        \/ Skullstrip(r)
        \/ ApplyMask(r)
        \/ CorrectBiasfield(r)
        \/ StandardizeIntensityrange(r)
        \/ ExtractFeatures(r)
        \/ Classify(r)
        \/ PublishIsfile(r)
        \/ PublishRemove(r)
        \/ PublishSymlink(r)

Spec == Init /\ [][Next]_vars

\* ------------------------------------------- the selection helpers alone
\* one run, up to the choice of the skull-stripping base, over every pair
\* of candidate lists and every set of sequences
SelectIds == {T1, FLAIR, DWI, ADC}
SelectTokens == {"t1_sag_tfe", " flair_tra", "dwi "}
CandidateLists ==
    UNION {[1..n -> SelectTokens] : n \in 1..MaxListLen}

StartSelect(r) ==
    /\ frame[r].pc = "idle"
    /\ \E S \in SUBSET SelectIds, rb \in CandidateLists,
          sb \in CandidateLists :
          Execute(r, Caller(S),
                  [BaseConfig EXCEPT !.registration_base = rb,
                                     !.base_image = sb])

NextSelect ==
    \/ StartSelect(1)
    \/ Resample(1)
    \/ Register(1)
    \/ RegisterDwi(1)
    \/ AdcBranch(1)
    \/ Skullstrip(1)

SpecSelect == Init /\ [][NextSelect]_vars

\* --------------------------------------------- the stage methods alone
\* stage methods called one after the other on contexts made from
\* configurations that differ in one value each
ElastixB == File("etc", "elastix_b.txt")
FeatureB == File("etc", "features_b.cfg")
StageConfigs ==
    {BaseConfig,
     [BaseConfig EXCEPT !.pixel_spacing = <<"3", "3", "3">>],
     [BaseConfig EXCEPT !.pixel_spacing = <<"1.0", "1.0", "1.0">>],
     [BaseConfig EXCEPT !.elastix_parameter_file = ElastixB],
     [BaseConfig EXCEPT !.feature_config_file = FeatureB]}
StagePaths == {File("data", T1), File("data", FLAIR)}
StageDicts ==
    UNION {[S -> StagePaths] : S \in {{T1}, {T1, FLAIR}}}

InitStage ==
    /\ dirs = AllDirs
    /\ files = ToolFiles \cup {ElastixB, FeatureB} \cup ModelFiles(SeqIds)
    /\ out = OutDict(<<Absent, Absent>>)
    /\ cache = <<>>
    /\ calls = <<>>
    /\ frame = [r \in Runs |-> IdleFrame]

StageCalls == {i \in DOMAIN calls : calls[i].nth = 1}
Context(config) == PipelineContext(config, dirs, files).ctx

MoreStageCalls == Cardinality(StageCalls) < MaxStageCalls

StageCommit(method, ctx, given, res) ==
    /\ cache' = res.cache
    /\ calls' = calls \o Logged(0, "", method, ctx, given, res.log)
    /\ UNCHANGED <<dirs, files, out, frame>>

CallResample ==
    /\ MoreStageCalls
    /\ \E config \in StageConfigs, a \in StagePaths :
          StageCommit("resample", Context(config), <<a>>,
                      resample(Context(config), cache, a, 0))

CallRegister ==
    /\ MoreStageCalls
    /\ \E config \in StageConfigs, a \in StagePaths, b \in StagePaths :
          StageCommit("register", Context(config), <<a, b>>,
                      register(Context(config), cache, a, b, 0))

CallTransform ==
    /\ MoreStageCalls
    /\ \E config \in StageConfigs, a \in StagePaths, b \in StagePaths :
          StageCommit("transform", Context(config), <<a, b>>,
                      transform(Context(config), cache, a, b, 0))

CallSkullstrip ==
    /\ MoreStageCalls
    /\ \E config \in StageConfigs, a \in StagePaths :
          StageCommit("skullstrip", Context(config), <<a>>,
                      skullstrip(Context(config), cache, a, 0))

CallApplyMask ==
    /\ MoreStageCalls
    /\ \E config \in StageConfigs, a \in StagePaths, b \in StagePaths :
          StageCommit("apply_mask", Context(config), <<a, b>>,
                      apply_mask(Context(config), cache, a, b, 0))

CallCorrectBiasfield ==
    /\ MoreStageCalls
    /\ \E config \in StageConfigs, a \in StagePaths, b \in StagePaths :
          StageCommit("correct_biasfield", Context(config), <<a, b>>,
                      correct_biasfield(Context(config), cache, a, b, 0))

CallStandardize ==
    /\ MoreStageCalls
    /\ \E config \in StageConfigs, a \in StagePaths, b \in StagePaths,
         m \in StagePaths :
          StageCommit("standardize_intensityrange", Context(config),
                      <<a, b, m>>,
                      standardize_intensityrange(Context(config), cache,
                                                 a, b, m, 0))

CallExtractFeatures ==
    /\ MoreStageCalls
    /\ \E config \in StageConfigs, d \in StageDicts, b \in StagePaths :
          StageCommit("extract_features", Context(config),
                      DictArgs(d) \o <<b>>,
                      extract_features(Context(config), cache, d, b, 0))

CallApplyRdf ==
    /\ MoreStageCalls
    /\ \E config \in StageConfigs, a \in StagePaths, b \in StagePaths,
         m \in StagePaths :
          StageCommit("apply_rdf", Context(config), <<a, b, m>>,
                      apply_rdf(Context(config), cache, a, b, m, 0))

NextStage ==
    \/ CallResample
    \/ CallRegister
    \/ CallTransform
    \/ CallSkullstrip
    \/ CallApplyMask
    \/ CallCorrectBiasfield
    \/ CallStandardize
    \/ CallExtractFeatures
    \/ CallApplyRdf

SpecStage == InitStage /\ [][NextStage]_vars

\* ------------------------------------------------------- one run alone
\* one run of execute_pipeline from start to end, over every set of
\* sequences, every list of registration base candidates and two lists of
\* skull-stripping base candidates
BaseImageLists == {BaseConfig.base_image, <<"dwi ", "t1_sag_tfe">>}

StartOne(r) ==
    /\ frame[r].pc = "idle"
    /\ \E S \in SUBSET SeqIds, rb \in CandidateLists,
          sb \in BaseImageLists :
          Execute(r, Caller(S), [BaseConfig EXCEPT !.registration_base = rb,
                                                   !.base_image = sb])

NextRun ==
    \/ StartOne(1)
    \/ Resample(1)
    \/ Register(1)
    \/ RegisterDwi(1)
    \/ AdcBranch(1)
    \/ Skullstrip(1)
    \/ ApplyMask(1)
    \/ CorrectBiasfield(1)
    \/ StandardizeIntensityrange(1)
    \/ ExtractFeatures(1)
    \/ Classify(1)
    \/ PublishIsfile(1)
    \/ PublishRemove(1)
    \/ PublishSymlink(1)

SpecRun == Init /\ [][NextRun]_vars

\* ------------------------------------------- construction of the context
\* one run on an installation in which any of the configured directories
\* may be missing, under configurations in which a configured file may be
\* missing or the pixel spacing malformed
ConstructionConfigs ==
    {BaseConfig,
     [BaseConfig EXCEPT !.elastix_parameter_file = ElastixMissing],
     [BaseConfig EXCEPT !.feature_config_file = FeatureMissing],
     [BaseConfig EXCEPT !.elastix_parameter_file = ElastixMissing,
                        !.feature_config_file = FeatureMissing],
     [BaseConfig EXCEPT !.pixel_spacing = <<"1", "1">>],
     [BaseConfig EXCEPT !.pixel_spacing = <<"1", "one", "1">>]}

\* the intensity models lie in the model directory, the earlier outputs
\* in the output directory
InitConstruction ==
    /\ dirs \in SUBSET AllDirs
    /\ files = ToolFiles \cup (IF ModelDir \in dirs
                               THEN ModelFiles(SeqIds \ {DWI}) ELSE {})
    /\ out \in {OutDict(<<Absent, Absent>>)}
                \cup (IF OutputDir \in dirs
                      THEN {OutDict(<<PriorFile, PriorFile>>)} ELSE {})
    /\ cache = <<>>
    /\ calls = <<>>
    /\ frame = [r \in Runs |-> IdleFrame]

StartConstruction(r) ==
    /\ frame[r].pc = "idle"
    /\ \E S \in SequenceSets, config \in ConstructionConfigs :
          Execute(r, Caller(S), config)

NextConstruction ==
    \/ StartConstruction(1)
    \/ Resample(1)
    \/ Register(1)
    \/ RegisterDwi(1)
    \/ AdcBranch(1)
    \/ Skullstrip(1)
    \/ ApplyMask(1)
    \/ CorrectBiasfield(1)
    \/ StandardizeIntensityrange(1)
    \/ ExtractFeatures(1)
    \/ Classify(1)
    \/ PublishIsfile(1)
    \/ PublishRemove(1)
    \/ PublishSymlink(1)

SpecConstruction == InitConstruction /\ [][NextConstruction]_vars

\* ------------------------------------------------------- concurrent runs
\* runs of execute_pipeline in separate processes on one cache directory,
\* up to the skull-stripping; the cached call of skullstrip is taken in
\* its two steps, the lookup of the entry and the run of the tool
ConcurrentSets == {{T1}, {T1, FLAIR}}

StartConcurrent(r) ==
    /\ frame[r].pc = "idle"
    /\ \E S \in ConcurrentSets : Execute(r, Caller(S), BaseConfig)

\* the key of the cached call skullstrip makes for in_file
SkullstripKey(ctx, in_file) ==
    LET c == skullstrip(ctx, <<>>, in_file, 0).log[1]
    IN  [op |-> c.op, args |-> c.args]

\* lines 57-58 up to the lookup in the cache: an entry answers the call,
\* otherwise the tool is started
SkullstripLookup(r) ==
    /\ frame[r].pc = "skullstrip"
    /\ LET f == frame[r]
           base == get_skullstripping_base(f.ctx, DOMAIN f.sequence_paths)
       IN  IF ~base.ok
           THEN /\ frame' = [frame EXCEPT ![r] =
                                Raise(f, "skullstripping_base", base.tried)]
                /\ UNCHANGED <<cache, calls>>
           ELSE IF Lookup(cache, SkullstripKey(f.ctx,
                                  f.sequence_paths[base.key])) = 0
           THEN /\ frame' = [frame EXCEPT ![r] =
                      [f EXCEPT !.skullstrip_base_key = base.key,
                                !.pc = "skullstrip_running"]]
                /\ UNCHANGED <<cache, calls>>
           ELSE LET res == skullstrip(f.ctx, cache,
                                      f.sequence_paths[base.key], 0)
                IN  /\ Commit(r, base.key, "skullstrip",
                              <<f.sequence_paths[base.key]>>, res)
                    /\ frame' = [frame EXCEPT ![r] =
                          [f EXCEPT !.skullstrip_base_key = base.key,
                                    !.mask = res.out[1],
                                    !.todo = DOMAIN f.sequence_paths,
                                    !.pc = "apply_mask"]]
    /\ UNCHANGED <<dirs, files, out>>

\* the started tool looking for the entry once more before it runs
SkullstripRun_rechecking(r) ==
    /\ frame[r].pc = "skullstrip_running"
    /\ LET f == frame[r]
           k == f.skullstrip_base_key
       IN  \E fail \in FailChoices(1) :
              LET res == skullstrip(f.ctx, cache, f.sequence_paths[k], fail)
              IN  /\ Commit(r, k, "skullstrip", <<f.sequence_paths[k]>>, res)
                  /\ frame' = [frame EXCEPT ![r] =
                        IF ~res.ok THEN Raise(f, "tool", <<>>)
                        ELSE [f EXCEPT !.mask = res.out[1],
                                       !.todo = DOMAIN f.sequence_paths,
                                       !.pc = "apply_mask"]]
    /\ UNCHANGED <<dirs, files, out>>

\* line 58 from the start of the tool to the return of skullstrip
SkullstripRun(r) ==
    /\ frame[r].pc = "skullstrip_running"
    /\ LET f == frame[r]
           k == f.skullstrip_base_key
           key == SkullstripKey(f.ctx, f.sequence_paths[k])
       IN  \E fail \in FailChoices(1) :
              LET res == Single(Record(cache, key.op, key.args, fail = 1),
                                <<"mask_file">>)
              IN  /\ Commit(r, k, "skullstrip", <<f.sequence_paths[k]>>, res)
                  /\ frame' = [frame EXCEPT ![r] =
                        IF ~res.ok THEN Raise(f, "tool", <<>>)
                        ELSE [f EXCEPT !.mask = res.out[1],
                                       !.todo = DOMAIN f.sequence_paths,
                                       !.pc = "apply_mask"]]
    /\ UNCHANGED <<dirs, files, out>>

NextConcurrent ==
    \E r \in Runs :
        \/ StartConcurrent(r)
        \/ Resample(r)
        \/ Register(r)
        \/ SkullstripLookup(r)
        \/ SkullstripRun(r)

SpecConcurrent == InitStage /\ [][NextConcurrent]_vars

\* ------------------------------------------- publication by several runs
\* runs in separate processes that publish into one output directory: a
\* run starts once the earlier ones have passed classification, and from
\* then on its steps interleave freely with their publication steps.  The
\* output directory is empty or holds two regular files.
PublishConfigs ==
    {BaseConfig, [BaseConfig EXCEPT !.feature_config_file = FeatureB]}

PublishInstallations ==
    {<<Absent, Absent>>, <<PriorFile, PriorFile>>}

InitPublish ==
    /\ dirs = AllDirs
    /\ files = ToolFiles \cup {ElastixB, FeatureB} \cup ModelFiles(SeqIds)
    /\ \E o \in PublishInstallations : out = OutDict(o)
    /\ cache = <<>>
    /\ calls = <<>>
    /\ frame = [r \in Runs |-> IdleFrame]

PastClassification(f) ==
    f.pc \in {"publish_isfile", "publish_remove", "publish_symlink", "done"}
       \/ (f.pc = "error"
              /\ f.err.at \in {"publish_isfile", "publish_remove",
                               "publish_symlink"})

\* the first run takes either configuration, a later one a configuration
\* other than that of the run before it, so that its results are other
\* files
PublishCases(r) ==
    IF r = 1 THEN PublishConfigs
    ELSE PublishConfigs \ {frame[r - 1].config}

StartPublish(r) ==
    /\ frame[r].pc = "idle"
    /\ \A q \in Runs : q < r => PastClassification(frame[q])
    /\ \E config \in PublishCases(r) :
          Execute(r, Caller({FLAIR, DW, T1}), config)

NextPublish ==
    \E r \in Runs :
        \/ StartPublish(r)
        \/ Resample(r)
        \/ Register(r)
        \/ Skullstrip(r)
        \/ ApplyMask(r)
        \/ CorrectBiasfield(r)
        \/ StandardizeIntensityrange(r)
        \/ ExtractFeatures(r)
        \/ Classify(r)
        \/ PublishIsfile(r)
        \/ PublishRemove(r)
        \/ PublishSymlink(r)

SpecPublish == InitPublish /\ [][NextPublish]_vars

\* ------------------------------------ installations with every model
\* one run of execute_pipeline over every set of sequences, on an
\* installation whose model directory may hold an intensity model for
\* every sequence, dwi included
InstalledModels == {SeqIds \ {DWI}, SeqIds}

InitModels ==
    /\ \E inst \in Installations :
          /\ dirs = inst.dirs
          /\ out = OutDict(inst.out)
    /\ \E M \in InstalledModels : files = ToolFiles \cup ModelFiles(M)
    /\ cache = <<>>
    /\ calls = <<>>
    /\ frame = [r \in Runs |-> IdleFrame]

StartModels(r) ==
    /\ frame[r].pc = "idle"
    /\ \E S \in SUBSET SeqIds,
          rb \in {BaseConfig.registration_base, <<"dwi ">>, <<"adc">>} :
          Execute(r, Caller(S), [BaseConfig EXCEPT !.registration_base = rb])

NextModels ==
    \/ StartModels(1)
    \/ Resample(1)
    \/ Register(1)
    \/ RegisterDwi(1)
    \/ AdcBranch(1)
    \/ Skullstrip(1)
    \/ ApplyMask(1)
    \/ CorrectBiasfield(1)
    \/ StandardizeIntensityrange(1)
    \/ ExtractFeatures(1)
    \/ Classify(1)
    \/ PublishIsfile(1)
    \/ PublishRemove(1)
    \/ PublishSymlink(1)

SpecModels == InitModels /\ [][NextModels]_vars

\* ---------------------------------------------------- get_forest alone
\* get_forest called on its own, on a context made from the configuration,
\* with every key set over the known identifiers and one more
OtherId == "t2_tra"
ForestIds == SeqIds \cup {OtherId}
ForestDirB == "forest_b"
ForestConfigs == {BaseConfig, [BaseConfig EXCEPT !.forest_dir = ForestDirB]}

CallGetForest ==
    \E S \in SUBSET ForestIds, config \in ForestConfigs :
        LET made == PipelineContext(config, dirs, files)
            forest == get_forest(made.ctx, S)
            f == [IdleFrame EXCEPT !.pc = "apply_rdf",
                                   !.config = config,
                                   !.ctx = made.ctx,
                                   !.caller = Caller(S),
                                   !.sequence_paths = Caller(S)]
        IN  /\ dirs' = made.dirs
            /\ frame' = [frame EXCEPT ![1] =
                  IF forest.ok
                  THEN [f EXCEPT !.forest = forest.path, !.pc = "returned"]
                  ELSE Raise(f, "forest", <<>>)]
            /\ UNCHANGED <<files, out, cache, calls>>

NextForest == CallGetForest

SpecForest == InitStage /\ [][NextForest]_vars

\* ------------------------------------------------------------------ claims
\* the steps of a run that come after the DWI/ADC step
PastAdc ==
    {"skullstrip", "apply_mask", "correct_biasfield",
     "standardize_intensityrange", "extract_features", "apply_rdf",
     "publish_isfile", "publish_remove", "publish_symlink", "done"}

\* the run has left the DWI/ADC step, by going on or by an error that
\* is no failure of a tool
LeftAdcStep(f) ==
    \/ f.pc \in PastAdc
    \/ f.pc = "error" /\ f.err.at \in PastAdc
    \/ f.pc = "error" /\ f.err.at = "adc" /\ f.err.kind # "tool"

\* the calls of method that run r made for sequence k
CallsFor(r, method, k) ==
    {i \in DOMAIN calls : /\ calls[i].run = r
                          /\ calls[i].method = method
                          /\ calls[i].seq = k}

\* the run is the last one started
Latest(r) == \A q \in Runs : q > r => frame[q].pc = "idle"

C2_AdcUsesDwiTransform ==
    \A r \in Runs :
        LET f == frame[r]
            keys == DOMAIN f.caller
        IN  /\ DWI \in keys => CallsFor(r, "register", ADC) = {}
            /\ (DWI \in keys /\ ADC \in keys) =>
                  \A i \in DOMAIN calls :
                     (calls[i].run = r /\ calls[i].method = "register")
                        => calls[i].params[1] # f.caller[ADC]
            /\ ({DWI, ADC} \subseteq keys /\ LeftAdcStep(f)) =>
                  \E d \in CallsFor(r, "register", DWI) :
                     \E t \in CallsFor(r, "transform", ADC) :
                        /\ d < t
                        /\ calls[d].ok /\ calls[t].ok
                        /\ calls[d].params[2] = f.fixed_image
                        /\ \E b \in CallsFor(r, "resample",
                                             f.fixed_image_key) :
                              f.fixed_image
                                  = Output(calls[b].slot, "out_file")
                        /\ calls[t].params[2]
                              = Output(calls[d].slot, "transform")
                        /\ calls[t].args[2]
                              = Output(calls[d].slot, "transform")
                        /\ CallsFor(r, "transform", ADC) = {t}

\* a run with dwi and adc has warped ADC by the transform of DWI and
\* stands before skull-stripping
C2_Witness ==
    \E r \in Runs :
        /\ {DWI, ADC} \subseteq DOMAIN frame[r].caller
        /\ frame[r].pc = "skullstrip"
        /\ CallsFor(r, "transform", ADC) # {}
        /\ CallsFor(r, "register", DWI) # {}

\* calls i and j have the same operation and the same parameter mapping
SameKey(i, j) ==
    /\ calls[i].op = calls[j].op
    /\ calls[i].args = calls[j].args

\* C3 as stated: of two invocations with the same operation and parameter
\* mapping, the second finds the cache entry, runs no tool and returns the
\* outputs of the first, so the tool runs at most once.
C3_SecondIsCacheHit ==
    \A i, j \in DOMAIN calls :
        (i < j /\ SameKey(i, j))
            => /\ calls[j].hit
               /\ calls[j].slot = calls[i].slot

\* C3 amended: of two invocations with the same operation and parameter
\* mapping, the first of which returned, the second finds the cache entry,
\* runs no tool and returns the outputs of the first.
C3_SecondIsCacheHitAfterSuccess ==
    \A i, j \in DOMAIN calls :
        (i < j /\ SameKey(i, j) /\ calls[i].ok)
            => /\ calls[j].hit
               /\ calls[j].ok
               /\ calls[j].slot = calls[i].slot

\* a tool has run and returned, and a later invocation with the same key
\* was answered from the cache
C3_Witness ==
    \E i, j \in DOMAIN calls :
        /\ i < j /\ SameKey(i, j)
        /\ calls[i].ok /\ ~calls[i].hit
        /\ calls[j].hit /\ calls[j].slot = calls[i].slot

\* C4: a failed tool invocation ends its run with that failure (the run
\* makes no further call: no retry, no default), records no cache entry,
\* and the next invocation with the same key runs the tool again.
C4_FailurePropagatesUncached ==
    \A i \in DOMAIN calls :
        ~calls[i].ok =>
            /\ ~calls[i].hit
            /\ frame[calls[i].run].pc = "error"
            /\ frame[calls[i].run].err.kind = "tool"
            /\ \A j \in DOMAIN calls : j > i => calls[j].run # calls[i].run
            /\ \A j \in DOMAIN calls :
                  (/\ j > i /\ SameKey(i, j)
                   /\ \A k \in DOMAIN calls :
                         (i < k /\ k < j) => ~SameKey(i, k))
                     => ~calls[j].hit
            /\ (\A j \in DOMAIN calls : j > i => ~SameKey(i, j))
                  => Lookup(cache, [op |-> calls[i].op,
                                    args |-> calls[i].args]) = 0

\* a tool failed in one run, and a later run ran it again under the same
\* key
C4_Witness ==
    \E i, j \in DOMAIN calls :
        /\ i < j /\ SameKey(i, j)
        /\ ~calls[i].ok
        /\ calls[j].run # calls[i].run
        /\ ~calls[j].hit /\ calls[j].ok

\* C5: a run that ends in an error leaves both output locations as they
\* were before it.
C5_ErrorLeavesOutputs ==
    \A r \in Runs :
        (frame[r].pc = "error" /\ Latest(r)) => out = frame[r].out_before

\* k is the first entry of list that is among keys
IsFirstMatch(list, keys, k) ==
    \E i \in DOMAIN list :
        /\ list[i] = k
        /\ k \in keys
        /\ \A j \in 1..(i - 1) : list[j] \notin keys

NonePresent(list, keys) == \A i \in DOMAIN list : list[i] \notin keys

\* C6: each of get_registration_base and get_skullstripping_base returns
\* the first entry of its own configured list that is among the available
\* sequences, and raises a lookup error exactly when no entry of that list
\* is.
C6_FirstConfiguredCandidate ==
    \A r \in Runs :
        LET f == frame[r]
            keys == DOMAIN f.caller
            rlist == f.ctx.registration_base_list
            slist == f.ctx.skullstripping_base_list
            selected == f.pc \notin {"idle", "resample"}
                            /\ f.err.kind # "config"
            stripped == f.pc = "apply_mask"
                            \/ (f.pc = "error" /\ f.err.at = "skullstrip"
                                   /\ f.err.kind # "tool")
        IN  /\ f.fixed_image_key # ""
                  => IsFirstMatch(rlist, keys, f.fixed_image_key)
            /\ (f.pc = "error" /\ f.err.kind = "registration_base")
                  => NonePresent(rlist, keys)
            /\ (selected /\ NonePresent(rlist, keys))
                  => (f.pc = "error" /\ f.err.kind = "registration_base")
            /\ (selected /\ ~NonePresent(rlist, keys)
                   /\ ~(f.pc = "error" /\ f.err.at = "resample"))
                  => f.fixed_image_key # ""
            /\ f.skullstrip_base_key # ""
                  => IsFirstMatch(slist, keys, f.skullstrip_base_key)
            /\ (f.pc = "error" /\ f.err.kind = "skullstripping_base")
                  => NonePresent(slist, keys)
            /\ (stripped /\ NonePresent(slist, keys))
                  => (f.pc = "error" /\ f.err.kind = "skullstripping_base")
            /\ (stripped /\ ~NonePresent(slist, keys))
                  => f.skullstrip_base_key # ""

\* both helpers have chosen, each the first entry of its list although a
\* later entry is present too, and they chose different sequences
C6_Witness ==
    \E r \in Runs :
        LET f == frame[r]
            keys == DOMAIN f.caller
            rlist == f.ctx.registration_base_list
            slist == f.ctx.skullstripping_base_list
        IN  /\ f.pc = "apply_mask"
            /\ Len(rlist) > 1 /\ Len(slist) > 1
            /\ f.fixed_image_key = rlist[1]
            /\ rlist[2] \in keys /\ rlist[2] # rlist[1]
            /\ f.skullstrip_base_key = slist[1]
            /\ slist[2] \in keys /\ slist[2] # slist[1]
            /\ f.skullstrip_base_key # f.fixed_image_key

\* the calls run r made, in order
RunCalls(r) == SelectSeq(calls, LAMBDA c : c.run = r)

\* run r follows run q, which a tool failure ended, with the same sequence
\* set and configuration
Retries(q, r) ==
    /\ r = q + 1
    /\ frame[q].pc = "error" /\ frame[q].err.kind = "tool"
    /\ frame[r].pc # "idle"
    /\ frame[r].caller = frame[q].caller
    /\ frame[r].config = frame[q].config

\* C7: after a run that failed at some call, the entries of the calls that
\* completed before are still in the cache, and a following run with the
\* same sequence set and configuration is answered from the cache for each
\* of them and runs tools only from the failed call on.
C7_FollowingRunReusesCache ==
    \A q, r \in Runs :
        Retries(q, r) =>
            LET cq == RunCalls(q)
                cr == RunCalls(r)
                n == Len(cq)
            IN  /\ n > 0 /\ ~cq[n].ok
                /\ \A i \in 1..(n - 1) :
                      /\ cq[i].ok
                      /\ cache[cq[i].slot]
                            = [op |-> cq[i].op, args |-> cq[i].args]
                /\ \A i \in 1..Len(cr) :
                      /\ i < n => /\ cr[i].op = cq[i].op
                                  /\ cr[i].args = cq[i].args
                                  /\ cr[i].hit /\ cr[i].ok
                                  /\ cr[i].slot = cq[i].slot
                      /\ i = n => /\ cr[i].op = cq[i].op
                                  /\ cr[i].args = cq[i].args
                                  /\ ~cr[i].hit
                      /\ ~cr[i].hit => i >= n

\* a run failed after at least three completed calls, and the following
\* run with the same input got past the failed call
C7_Witness ==
    \E q, r \in Runs :
        /\ Retries(q, r)
        /\ Len(RunCalls(q)) > 3
        /\ Len(RunCalls(r)) > Len(RunCalls(q))
        /\ \A i \in 1..(Len(RunCalls(q)) - 1) : RunCalls(r)[i].hit

\* C8: during publication an output location that held a file before the
\* run holds either that file or the new result, never nothing, and after
\* a successful run both locations hold the results of the run.
C8_OutputNeverAbsent ==
    \A r \in Runs :
        LET f == frame[r]
        IN  (Latest(r) /\ f.pc \in {"publish_isfile", "publish_remove",
                                    "publish_symlink", "done"})
            => \A i \in DOMAIN OutFiles :
                  /\ isfile(f.out_before[OutFiles[i]])
                        => out[OutFiles[i]]
                              \in {f.out_before[OutFiles[i]], f.images[i]}
                  /\ f.pc = "done" => out[OutFiles[i]] = f.images[i]

\* the parameters of calls i and j differ in exactly one place
DifferInOne(i, j) ==
    /\ Len(calls[i].params) = Len(calls[j].params)
    /\ Cardinality({k \in DOMAIN calls[i].params :
                       calls[i].params[k] # calls[j].params[k]}) = 1

\* C9: two calls of the same stage method whose parameters differ have
\* different invocation keys, and the second is not answered from the
\* cache entry of the first.
C9_DifferentParametersDifferentEntries ==
    \A i, j \in DOMAIN calls :
        (/\ i < j
         /\ calls[i].method = calls[j].method
         /\ calls[i].nth = calls[j].nth
         /\ calls[i].params # calls[j].params)
            => /\ ~SameKey(i, j)
               /\ calls[i].ok => calls[j].slot # calls[i].slot

\* a stage method was called twice with parameters that differ in one
\* place only, and the second call ran its tool
C9_Witness ==
    \E i, j \in DOMAIN calls :
        /\ i < j
        /\ calls[i].method = "standardize_intensityrange"
        /\ calls[j].method = calls[i].method
        /\ calls[i].nth = 1 /\ calls[j].nth = 1
        /\ DifferInOne(i, j)
        /\ calls[i].params[3] # calls[j].params[3]
        /\ calls[i].ok /\ calls[j].ok /\ ~calls[j].hit

\* C10: a construction that fails for a missing configured file leaves
\* the directories as they were: it has made none.
C10_FailedConstructionCreatesNothing ==
    \A r \in Runs :
        LET f == frame[r]
        IN  (/\ Latest(r)
             /\ f.pc = "error" /\ f.err.kind = "config"
             /\ f.err.tried \in {<<"elastix_parameter_file">>,
                                 <<"feature_config_file">>})
            => dirs = f.dirs_before

\* C11: get_forest returns <forest_dir>/forest.pklz exactly when the key
\* set is {flair_tra, dw_tra_b1000_dmean, t1_sag_tfe}; for every other key
\* set, subsets and supersets of it included, it raises a lookup error.
C11_ForestExactlyForTrio ==
    \A r \in Runs :
        LET f == frame[r]
            keys == DOMAIN f.sequence_paths
        IN  (f.pc = "returned" \/ (f.pc = "error" /\ f.err.at = "apply_rdf"))
            => /\ (keys = {FLAIR, DW, T1}) <=> (f.pc = "returned")
               /\ f.pc = "returned"
                     => f.forest = File(f.config.forest_dir, "forest.pklz")
               /\ f.pc = "error" => f.err.kind = "forest"

\* get_forest has returned the forest of the second configured directory
\* for the three sequences
C11_Witness ==
    \E r \in Runs :
        /\ frame[r].pc = "returned"
        /\ DOMAIN frame[r].sequence_paths = {FLAIR, DW, T1}
        /\ frame[r].forest = File(ForestDirB, "forest.pklz")

\* the calls of stage method by run r, one per call of the method
MethodCalls(r, method) ==
    {i \in DOMAIN calls : /\ calls[i].run = r
                          /\ calls[i].method = method
                          /\ calls[i].nth = 1}

\* run r was given the three sequences and the registration base list
\* [t1_sag_tfe, flair_tra], has ended, and no tool failed in it
CompleteRun(r) ==
    /\ DOMAIN frame[r].caller = {T1, FLAIR, DW}
    /\ frame[r].ctx.registration_base_list = <<T1, FLAIR>>
    /\ Terminal(frame[r])
    /\ \A i \in DOMAIN calls : calls[i].run = r => calls[i].ok

\* the calls the claim lists: one resample of t1_sag_tfe, flair_tra and
\* dw_tra_b1000_dmean each registered to the resampled t1_sag_tfe, no
\* transform, one skullstrip, three of apply_mask, correct_biasfield and
\* standardize_intensityrange, one extract_features over the three
\* sequences, one apply_rdf
CompleteCalls(r) ==
    LET f == frame[r]
        one(method, k) == Cardinality(CallsFor(r, method, k)) = 1
    IN  /\ Cardinality(MethodCalls(r, "resample")) = 1
        /\ \A i \in MethodCalls(r, "resample") :
              /\ calls[i].seq = T1
              /\ calls[i].params[1] = f.caller[T1]
              /\ f.fixed_image = Output(calls[i].slot, "out_file")
        /\ Cardinality(MethodCalls(r, "register")) = 2
        /\ \A k \in {FLAIR, DW} :
              /\ one("register", k)
              /\ \A i \in CallsFor(r, "register", k) :
                    /\ calls[i].params[1] = f.caller[k]
                    /\ calls[i].params[2] = f.fixed_image
        /\ MethodCalls(r, "transform") = {}
        /\ Cardinality(MethodCalls(r, "skullstrip")) = 1
        /\ \A method \in {"apply_mask", "correct_biasfield",
                           "standardize_intensityrange"} :
              /\ Cardinality(MethodCalls(r, method)) = 3
              /\ \A k \in {T1, FLAIR, DW} :
                    Cardinality(CallsFor(r, method, k) \cap
                                MethodCalls(r, method)) = 1
        /\ Cardinality(MethodCalls(r, "extract_features")) = 1
        /\ \A i \in MethodCalls(r, "extract_features") :
              \A k \in {T1, FLAIR, DW} :
                 \E n \in DOMAIN calls[i].params :
                    calls[i].params[n] = Param(k)
        /\ Cardinality(MethodCalls(r, "apply_rdf")) = 1

\* C12: a run on the three sequences with registration base list
\* [t1_sag_tfe, flair_tra] in which no tool fails makes exactly the calls
\* listed and then publishes both segmentation.nii.gz and
\* probability.nii.gz.
C12_CompleteRunPublishes ==
    \A r \in Runs :
        (CompleteRun(r) /\ Latest(r))
            => /\ CompleteCalls(r)
               /\ frame[r].pc = "done"
               /\ \A n \in DOMAIN OutFiles :
                     out[OutFiles[n]] = frame[r].images[n]

\* what holds of such a run on every installation: it makes exactly the
\* calls listed; it publishes both results unless os.symlink finds a link
\* whose target is gone at an output location, which ends it in an OSError
C12_CompleteRunCalls ==
    \A r \in Runs :
        (CompleteRun(r) /\ Latest(r))
            => /\ CompleteCalls(r)
               /\ frame[r].pc = "done"
                     => \A n \in DOMAIN OutFiles :
                           out[OutFiles[n]] = frame[r].images[n]
               /\ frame[r].pc = "error"
                     => /\ frame[r].err.kind = "OSError"
                        /\ \E n \in DOMAIN OutFiles :
                              frame[r].out_before[OutFiles[n]] = Dangling

\* such a run has published both results
C12_Published ==
    \E r \in Runs :
        /\ CompleteRun(r)
        /\ frame[r].pc = "done"
        /\ \A n \in DOMAIN OutFiles :
              out[OutFiles[n]] = frame[r].images[n]

\* the directories and the files a configuration names
ConfiguredDirs(config) ==
    {config.cache_dir, config.output_dir, config.model_dir,
     config.forest_dir}
ConfiguredFiles(config) ==
    {config.elastix_parameter_file, config.feature_config_file}

\* C13: construction creates every configured directory that is missing
\* and goes on without error, and fails for every configured file that is
\* missing, in which case the run executes no stage.
C13_DirectoriesCreatedFilesFatal ==
    \A r \in Runs :
        LET f == frame[r]
        IN  f.pc # "idle" =>
               /\ ~(ConfiguredFiles(f.config) \subseteq files)
                     => /\ f.pc = "error" /\ f.err.kind = "config"
                        /\ f.err.at = "idle"
                        /\ \A i \in DOMAIN calls : calls[i].run # r
                        /\ f.fixed_image_key = ""
               /\ (ConfiguredFiles(f.config) \subseteq files
                      /\ SpacingOk(f.config.pixel_spacing))
                     => /\ f.err.kind # "config"
                        /\ f.ctx # NoContext
                        /\ ConfiguredDirs(f.config) \subseteq dirs

\* a run whose four configured directories were all missing has made them
\* and executed a stage
C13_Witness ==
    \E r \in Runs :
        /\ frame[r].pc # "idle"
        /\ frame[r].dirs_before = {}
        /\ AllDirs \subseteq dirs
        /\ \E i \in DOMAIN calls : calls[i].run = r /\ calls[i].ok

\* the place of a call in the order of the steps of a run
StepOf(c) ==
    CASE c.method = "resample" -> 1
      [] c.method = "register" /\ c.seq \notin {DWI, ADC} -> 2
      [] c.method = "register" /\ c.seq \in {DWI, ADC} -> 3
      [] c.method = "transform" -> 3
      [] c.method = "skullstrip" -> 4
      [] c.method = "apply_mask" -> 5
      [] c.method = "correct_biasfield" -> 6
      [] c.method = "standardize_intensityrange" -> 6
      [] c.method = "extract_features" -> 7
      [] c.method = "apply_rdf" -> 8

\* the steps of publication
Publishing == {"publish_isfile", "publish_remove", "publish_symlink"}

\* the path a stage method returned from the call that ends at calls[i]
Returned(i, name) == Output(calls[i].slot, name)

\* C14: within a run the calls follow the order of the steps (resample,
\* register, DWI/ADC, skullstrip, apply_mask, bias correction with
\* standardization, extract_features, apply_rdf, publication), a call is
\* made only after every earlier call of the run has returned, and for
\* each sequence the bias correction comes before the standardization and
\* takes the masked image of that sequence.
C14_StagesInOrder ==
    \A r \in Runs :
        LET f == frame[r]
            mine == {i \in DOMAIN calls : calls[i].run = r}
        IN  /\ \A i, j \in mine :
                  i < j => /\ StepOf(calls[i]) <= StepOf(calls[j])
                           /\ calls[i].ok
            /\ (f.pc \in Publishing \cup {"done"}
                   \/ (f.pc = "error" /\ f.err.at \in Publishing))
                  => /\ \E i \in mine : /\ calls[i].method = "apply_rdf"
                                         /\ calls[i].ok
                     /\ f.images = <<Returned(CHOOSE i \in mine :
                                        calls[i].method = "apply_rdf",
                                        "out_file_segmentation"),
                                     Returned(CHOOSE i \in mine :
                                        calls[i].method = "apply_rdf",
                                        "out_file_probabilities")>>
            /\ (Latest(r) /\ out # f.out_before /\ f.pc # "idle")
                  => \E i \in mine : calls[i].method = "apply_rdf"
            /\ \A b \in MethodCalls(r, "correct_biasfield") :
                  \E m \in CallsFor(r, "apply_mask", calls[b].seq) :
                     /\ m < b
                     /\ calls[b].params[1] = Returned(m, "out_file")
                     /\ calls[b].args[1] = Returned(m, "out_file")
            /\ \A t \in MethodCalls(r, "standardize_intensityrange") :
                  \E b \in CallsFor(r, "correct_biasfield", calls[t].seq) :
                     /\ b < t
                     /\ calls[b].nth = 2
                     /\ calls[t].params[1] = Returned(b, "out_file")
                     /\ \A x \in mine : ~(b < x /\ x < t)

\* a run has gone through every step and published, and the bias
\* correction and standardization of three sequences lie in its log
C14_Witness ==
    \E r \in Runs :
        /\ frame[r].pc = "done"
        /\ Cardinality(MethodCalls(r, "standardize_intensityrange")) = 3
        /\ \A n \in 1..8 :
              n # 3 => \E i \in DOMAIN calls :
                          calls[i].run = r /\ StepOf(calls[i]) = n

\* the steps of a run that come after mask application
PastMask ==
    {"correct_biasfield", "standardize_intensityrange", "extract_features",
     "apply_rdf", "done"} \cup Publishing

\* C15: a run that reaches mask application has made exactly one
\* skullstrip call, on the resampled or registered image of the
\* skull-stripping base; once mask application is through, apply_mask has
\* been called exactly once for every sequence of the set; and the mask of
\* that one skullstrip call is the mask of every apply_mask,
\* correct_biasfield, standardize_intensityrange, extract_features and
\* apply_rdf call.
C15_OneMaskForAll ==
    \A r \in Runs :
        LET f == frame[r]
            mine == {i \in DOMAIN calls : calls[i].run = r}
            strips == MethodCalls(r, "skullstrip")
            reached == f.pc \in {"apply_mask"} \cup PastMask
                          \/ (f.pc = "error"
                                 /\ f.err.at \in {"apply_mask"} \cup PastMask)
            through == f.pc \in PastMask
                          \/ (f.pc = "error" /\ f.err.at \in PastMask)
        IN  /\ reached =>
                  /\ Cardinality(strips) = 1
                  /\ \A s \in strips :
                        /\ calls[s].ok
                        /\ f.mask = Returned(s, "mask_file")
                        /\ calls[s].seq = f.skullstrip_base_key
                        /\ \E e \in mine :
                              /\ e < s
                              /\ calls[e].seq = calls[s].seq
                              /\ calls[e].method
                                    \in {"resample", "register", "transform"}
                              /\ calls[s].params[1]
                                    \in {Returned(e, "out_file"),
                                         Returned(e, "warped_file")}
                              /\ calls[s].args[1] = calls[s].params[1]
            /\ through =>
                  \A k \in DOMAIN f.caller :
                     Cardinality(CallsFor(r, "apply_mask", k)) = 1
            /\ \A k \in SeqIds :
                  /\ Cardinality(CallsFor(r, "apply_mask", k)) <= 1
                  /\ CallsFor(r, "apply_mask", k) # {}
                        => k \in DOMAIN f.caller
            /\ \A i \in mine :
                  /\ calls[i].method \in {"apply_mask", "correct_biasfield",
                                           "standardize_intensityrange"}
                        /\ calls[i].nth = 1
                        => /\ calls[i].params[2] = f.mask
                           /\ calls[i].args[IF calls[i].method
                                                = "standardize_intensityrange"
                                            THEN 3 ELSE 2] = f.mask
                  /\ calls[i].method = "extract_features"
                        => /\ calls[i].params[Len(calls[i].params) - 1]
                                 = f.mask
                           /\ calls[i].args[Len(calls[i].args) - 1] = f.mask
                  /\ calls[i].method = "apply_rdf"
                        => /\ calls[i].params[3] = f.mask
                           /\ calls[i].args[4] = f.mask
                  /\ StepOf(calls[i]) > 4 => f.mask # NoPath

\* a run on the registration base, DWI and ADC has masked all three with
\* the mask of the registered DWI and gone on to bias correction
C15_Witness ==
    \E r \in Runs :
        /\ DOMAIN frame[r].caller = {T1, DWI, ADC}
        /\ frame[r].fixed_image_key = T1
        /\ frame[r].skullstrip_base_key = DWI
        /\ frame[r].pc = "standardize_intensityrange"
        /\ \A k \in {T1, DWI, ADC} :
              Cardinality(CallsFor(r, "apply_mask", k)) = 1

\* C16: nothing keeps two concurrent runs that both found no entry for a
\* key from both running the tool: a run that found no entry runs the tool
\* in its next step whatever the cache holds by then, and writes the slot
\* of the key, be it written by another run since.
C16_MissedRunsExecute ==
    [][\A r \in Runs :
          (frame[r].pc = "skullstrip_running"
              /\ frame'[r].pc # "skullstrip_running")
             => LET n == Len(calls')
                    key == SkullstripKey(frame[r].ctx,
                               frame[r].sequence_paths[
                                   frame[r].skullstrip_base_key])
                IN  /\ n = Len(calls) + 1
                    /\ calls'[n].run = r
                    /\ calls'[n].method = "skullstrip"
                    /\ [op |-> calls'[n].op, args |-> calls'[n].args] = key
                    /\ ~calls'[n].hit
                    /\ calls'[n].ok =>
                          /\ cache'[calls'[n].slot] = key
                          /\ Lookup(cache, key) > 0 =>
                                /\ cache' = cache
                                /\ calls'[n].slot = Lookup(cache, key)]_vars

\* two runs have each run the tool for one key and written the same slot
C16_TwoExecutions ==
    \E i, j \in DOMAIN calls :
        /\ i < j /\ SameKey(i, j)
        /\ calls[i].method = "skullstrip"
        /\ calls[i].run # calls[j].run
        /\ ~calls[i].hit /\ ~calls[j].hit
        /\ calls[i].ok /\ calls[j].ok
        /\ calls[i].slot = calls[j].slot

\* C17: every selection error carries the candidate list of the resource
\* that was looked up: the registration base list when no registration
\* base is present, the skull-stripping base list (and no other list)
\* when no skull-stripping base is present.
C17_SelectionErrorCarriesOwnList ==
    \A r \in Runs :
        LET f == frame[r]
        IN  f.pc = "error" =>
               /\ f.err.kind = "registration_base"
                     => f.err.tried = f.ctx.registration_base_list
               /\ f.err.kind = "skullstripping_base"
                     => f.err.tried = f.ctx.skullstripping_base_list

\* the half of C17 about the registration base
C17_RegistrationErrorCarriesOwnList ==
    \A r \in Runs :
        (frame[r].pc = "error" /\ frame[r].err.kind = "registration_base")
           => frame[r].err.tried = frame[r].ctx.registration_base_list

\* a run ended for want of a skull-stripping base while its two
\* candidate lists differ
C17_SkullstrippingError ==
    \E r \in Runs :
        /\ frame[r].pc = "error"
        /\ frame[r].err.kind = "skullstripping_base"
        /\ frame[r].ctx.skullstripping_base_list
              # frame[r].ctx.registration_base_list

\* the one key set get_forest has a forest for
ForestKeySet == {FLAIR, DW, T1}

\* the errors that stop a run before the forest is looked up for a reason
\* the configuration, the installation or a tool gives
StoppedEarlier ==
    {"config", "registration_base", "skullstripping_base",
     "intensity_model", "tool"}

\* run r has executed resampling, registration, skull-stripping, masking,
\* bias correction, intensity standardization and feature extraction
AllStagesExecuted(r) ==
    LET f == frame[r]
        done(method) == \E i \in MethodCalls(r, method) : calls[i].ok
        each(method) == \A k \in DOMAIN f.caller :
                           \E i \in CallsFor(r, method, k) : calls[i].ok
    IN  /\ done("resample")
        /\ \A k \in DOMAIN f.caller :
              \/ k = f.fixed_image_key
              \/ \E i \in CallsFor(r, "register", k) : calls[i].ok
              \/ \E i \in CallsFor(r, "transform", k) : calls[i].ok
        /\ done("skullstrip")
        /\ each("apply_mask")
        /\ each("correct_biasfield")
        /\ each("standardize_intensityrange")
        /\ done("extract_features")

\* publication is reached only with the key set of the forest, and a
\* forest lookup error comes only after every stage before it
C18_PublicationOnlyForForestKeySet ==
    \A r \in Runs :
        LET f == frame[r]
        IN  /\ (f.pc \in Publishing \cup {"done"}
                   \/ (f.pc = "error" /\ f.err.at \in Publishing))
                  => DOMAIN f.caller = ForestKeySet
            /\ (f.pc = "error" /\ f.err.kind = "forest")
                  => /\ DOMAIN f.caller # ForestKeySet
                     /\ AllStagesExecuted(r)
                     /\ MethodCalls(r, "apply_rdf") = {}

\* C18: publication is reached only if the key set is exactly
\* {flair_tra, dw_tra_b1000_dmean, t1_sag_tfe}; a run over any other key
\* set (in particular one containing dwi or adc) that no configuration
\* error, missing candidate, missing intensity model or failing tool has
\* stopped ends in a forest lookup error, raised only after resampling,
\* registration, skull-stripping, masking, bias correction, intensity
\* standardization and feature extraction have all been executed.
C18_OtherSetsEndInForestError ==
    /\ C18_PublicationOnlyForForestKeySet
    /\ \A r \in Runs :
          LET f == frame[r]
          IN  (Terminal(f) /\ DOMAIN f.caller # ForestKeySet)
                 => /\ f.pc = "error"
                    /\ f.err.kind \notin StoppedEarlier
                          => f.err.kind = "forest"

\* the runs over other key sets all end in an error
C18_OtherSetsEndInError ==
    \A r \in Runs :
        (Terminal(frame[r]) /\ DOMAIN frame[r].caller # ForestKeySet)
           => /\ frame[r].pc = "error"
              /\ frame[r].err.kind \in
                    StoppedEarlier \cup {"forest", "UnboundLocalError"}

\* a run over a set with dwi and adc has ended in the forest lookup error
C18_ForestError ==
    \E r \in Runs :
        /\ frame[r].pc = "error"
        /\ frame[r].err.kind = "forest"
        /\ {DWI, ADC} \subseteq DOMAIN frame[r].caller

\* C19: in no run is the registration base passed as the moving image of
\* a register call or of a transform call, whatever the sequence set and
\* the registration base list (lists naming dwi or adc included): the
\* selected sequence is only resampled, never registered to its own
\* resampled image.
C19_BaseNeverMoving ==
    \A i \in DOMAIN calls :
        calls[i].method \in {"register", "transform"}
           => /\ calls[i].seq # frame[calls[i].run].fixed_image_key
              /\ calls[i].params[1] # frame[calls[i].run].fixed_image

\* the loop over the other sequences leaves the registration base out
C19_LoopSkipsBase ==
    \A i \in DOMAIN calls :
        (calls[i].method = "register" /\ calls[i].seq \notin {DWI, ADC})
           => /\ calls[i].seq # frame[calls[i].run].fixed_image_key
              /\ calls[i].params[1] # frame[calls[i].run].fixed_image
              /\ calls[i].params[2] = frame[calls[i].run].fixed_image

\* dwi was selected as registration base and then registered to itself
C19_DwiRegisteredToItself ==
    \E i \in DOMAIN calls :
        /\ calls[i].method = "register"
        /\ calls[i].seq = DWI
        /\ frame[calls[i].run].fixed_image_key = DWI
        /\ calls[i].params[1] = frame[calls[i].run].fixed_image
        /\ calls[i].params[2] = frame[calls[i].run].fixed_image

\* adc was selected as registration base and then transformed
C19_AdcBaseTransformed ==
    \E i \in DOMAIN calls :
        /\ calls[i].method = "transform"
        /\ calls[i].seq = ADC
        /\ frame[calls[i].run].fixed_image_key = ADC
        /\ calls[i].params[1] = frame[calls[i].run].fixed_image

\* a value that is one file path, not a tuple of paths
SinglePath(v) == Len(v) = 3 /\ v[2] \in Nat /\ v # NoPath

\* C20: throughout a run the key set of the working sequence set is the
\* key set the caller gave (a stage only replaces the path under an
\* existing key), every stored value is a single file path, and the
\* mapping passed in by the caller is as it was passed in, whether the run
\* succeeds or fails.
C20_KeySetConstant ==
    \A r \in Runs :
        LET f == frame[r]
        IN  f.pc # "idle" =>
               /\ DOMAIN f.sequence_paths = DOMAIN f.caller
               /\ \A k \in DOMAIN f.sequence_paths :
                     SinglePath(f.sequence_paths[k])
               /\ f.caller = Caller(DOMAIN f.caller)

\* a run over a set with dwi and adc has gone through every stage, every
\* path of its working set replaced, and has ended
C20_Witness ==
    \E r \in Runs :
        LET f == frame[r]
        IN  /\ Terminal(f)
            /\ {DWI, ADC} \subseteq DOMAIN f.caller
            /\ Cardinality(DOMAIN f.caller) >= 3
            /\ AllStagesExecuted(r)
            /\ \A k \in DOMAIN f.caller : f.sequence_paths[k] # f.caller[k]

\* the runs that have passed classification
Publishers == {r \in Runs : PastClassification(frame[r])}

\* C21: when two runs that both pass classification publish concurrently
\* into one output directory, every interleaving of their check-exists,
\* remove and link steps lets both finish publication without error, and
\* afterwards each of the two output locations refers to the result of
\* one of the two runs.
C21_ConcurrentPublicationSucceeds ==
    /\ \A r \in Publishers : frame[r].pc # "error"
    /\ (Cardinality(Publishers) >= 2
           /\ \A r \in Publishers : frame[r].pc = "done")
          => \A i \in DOMAIN OutFiles :
                \E r \in Publishers : out[OutFiles[i]] = frame[r].images[i]

\* the part of C21 about the runs that do finish: once every run that
\* passed classification has finished without error, each output location
\* refers to the result of one of them
C21_FinishedRunsLeaveAResult ==
    (Publishers # {} /\ \A r \in Publishers : frame[r].pc = "done")
       => \A i \in DOMAIN OutFiles :
             \E r \in Publishers : out[OutFiles[i]] = frame[r].images[i]

\* a run alone in publication is not stopped there: an error of the
\* publication steps needs a second run past classification
C21_ErrorNeedsTwoPublishers ==
    \A r \in Publishers :
        frame[r].pc = "error" => Cardinality(Publishers) >= 2

\* two runs with different results have both finished publication
C21_BothPublished ==
    \E r, q \in Runs :
        /\ r # q
        /\ frame[r].pc = "done" /\ frame[q].pc = "done"
        /\ frame[r].images[1] # frame[q].images[1]
        /\ out[OutFiles[1]] = frame[r].images[1]
        /\ out[OutFiles[2]] = frame[q].images[2]

\* one of two publishing runs has finished and the other was stopped by
\* OSError in os.remove or os.symlink
C21_RaceError ==
    \E r, q \in Runs :
        /\ frame[r].pc = "done"
        /\ frame[q].pc = "error"
        /\ frame[q].err.kind = "OSError"
        /\ frame[q].err.at \in {"publish_remove", "publish_symlink"}

====
